---- MODULE Spec2Model ----
(***************************************************************************)
(* lagoinha: get_address (src/src/lib.rs) races three provider lookups     *)
(* over a bounded futures::channel::mpsc channel and reads the channel     *)
(* with try_next; services::cepla::request (src/src/services/cepla.rs)     *)
(* classifies the outcome of one blocking curl transfer.                   *)
(***************************************************************************)
EXTENDS Integers, Sequences, FiniteSets, TLC

(***************************************************************************)
(* Bounds of the model                                                     *)
(***************************************************************************)
\* number of get_address calls the caller makes
NumCalls == 2
\* largest HTTP status the transfer may report (three digits)
MaxStatus == 999

(***************************************************************************)
(* Program constants                                                       *)
(***************************************************************************)
\* mpsc::channel::<...>(1)
Buffer == 1
\* for _ in 0..2
LoopCount == 2
\* error_list[0], error_list[1], error_list[2]
CompositeArity == 3

Calls == 1..NumCalls
Providers == {"viacep", "cepla", "correios"}
Codes == {"70150903", "01001000"}

Viacep == "Viacep"
Cepla == "Cepla"
Correios == "Correios"
LagoinhaLib == "LagoinhaLib"

Ok(v) == [tag |-> "Ok", val |-> v]
Err(e) == [tag |-> "Err", val |-> e]
IsOk(r) == r.tag = "Ok"
IsErr(r) == r.tag = "Err"

(***************************************************************************)
(* error::Error and error::Kind, as lib.rs and cepla.rs construct them     *)
(***************************************************************************)
UnexpectedLibraryError == [name |-> "UnexpectedLibraryError"]
MissingBodyError == [name |-> "MissingBodyError"]
ClientError(code) == [name |-> "ClientError", code |-> code]
ServerError(code) == [name |-> "ServerError", code |-> code]
UnknownServerError(code) == [name |-> "UnknownServerError", code |-> code]
BodyParsingError(error, body) == [name |-> "BodyParsingError", error |-> error, body |-> body]
AllServicesRetunedErrors(e1, e2, e3) ==
    [name |-> "AllServicesRetunedErrors", e1 |-> e1, e2 |-> e2, e3 |-> e3]
Error(kind, source) == [kind |-> kind, source |-> source]

\* code as u16
AsU16(code) == code % 65536

\* format!("{}", error): the source, the kind and the kind's payload
ErrorDisplay(e) ==
    <<e.source, e.kind.name>> \o
    (CASE e.kind.name \in {"ClientError", "ServerError", "UnknownServerError"} -> <<e.kind.code>>
       [] e.kind.name = "BodyParsingError" -> <<e.kind.error, e.kind.body>>
       [] OTHER -> << >>)

(***************************************************************************)
(* services::cepla                                                         *)
(***************************************************************************)
\* what the postal service holds for a code
City(cep) == IF cep = "70150903" THEN "Brasilia" ELSE "Sao Paulo"
State(cep) == IF cep = "70150903" THEN "DF" ELSE "SP"
Neighborhood(cep) == IF cep = "70150903" THEN "Zona Civico-Administrativa" ELSE "Se"
Street(cep) == IF cep = "70150903" THEN "SPP" ELSE "Praca da Se"
Hyphenated(cep) == IF cep = "70150903" THEN "70150-903" ELSE "01001-000"

\* cepla::Address, with the field names of the cepla API
CeplaAddress(cep) ==
    [cep |-> cep, uf |-> State(cep), cidade |-> City(cep),
     bairro |-> Neighborhood(cep), logradouro |-> Street(cep), aux |-> ""]

\* the points at which curl can fail in request, in program order
CurlSteps == <<"url", "append", "http_headers", "write_function", "perform", "response_code">>
CurlFailures == {CurlSteps[i] : i \in 1..Len(CurlSteps)} \cup {"none"}
\* "object": a JSON object; "invalid": text that is no JSON object;
\* "nonutf8": bytes that are not UTF-8
Bodies == {"object", "invalid", "nonutf8"}
CurlOutcomes == [fail : CurlFailures, status : 0..MaxStatus, body : Bodies]

\* serde_json::from_slice::<Address>(&buf)
FromSlice(cep, body) ==
    IF body = "object" THEN Ok(CeplaAddress(cep)) ELSE Err("expected value")

\* std::str::from_utf8(&buf), with the placeholder of the Err arm
StrBody(body) ==
    IF body = "nonutf8" THEN "Failed to produce string body " ELSE body

\* the status match with the catch-all arm copied from another adapter
ClassifyStatusCopied(code) ==
    CASE code >= 200 /\ code <= 299 -> Ok("decode")
      [] code >= 400 /\ code <= 499 -> Err(Error(ClientError(AsU16(code)), Cepla))
      [] code >= 500 /\ code <= 599 -> Err(Error(ServerError(AsU16(code)), Cepla))
      [] OTHER -> Err(Error(UnknownServerError(AsU16(code)), Viacep))

\* the status match with the 4xx arm written 400..499, end excluded
ClassifyStatusExclusive(code) ==
    CASE code >= 200 /\ code <= 299 -> Ok("decode")
      [] code >= 400 /\ code < 499 -> Err(Error(ClientError(AsU16(code)), Cepla))
      [] code >= 500 /\ code <= 599 -> Err(Error(ServerError(AsU16(code)), Cepla))
      [] OTHER -> Err(Error(UnknownServerError(AsU16(code)), Cepla))

\* match requester.response_code() { Ok(code) => match code { ... } }
ClassifyStatus(code) ==
    CASE code >= 200 /\ code <= 299 -> Ok("decode")
      [] code >= 400 /\ code <= 499 -> Err(Error(ClientError(AsU16(code)), Cepla))
      [] code >= 500 /\ code <= 599 -> Err(Error(ServerError(AsU16(code)), Cepla))
      [] OTHER -> Err(Error(UnknownServerError(AsU16(code)), Cepla))

\* cepla::request(cep), curl behaving as `outcome` says
CeplaRequest(cep, outcome) ==
    IF outcome.fail \in {"url", "append", "http_headers"}
    THEN Err(Error(UnexpectedLibraryError, Cepla))
    ELSE IF outcome.fail \in {"write_function", "perform"}
    THEN Err(Error(MissingBodyError, Cepla))
    ELSE IF outcome.fail = "response_code"
    THEN Err(Error(UnexpectedLibraryError, Cepla))
    ELSE IF IsErr(ClassifyStatus(outcome.status))
    THEN ClassifyStatus(outcome.status)
    ELSE IF IsOk(FromSlice(cep, outcome.body))
    THEN FromSlice(cep, outcome.body)
    ELSE Err(Error(BodyParsingError(FromSlice(cep, outcome.body).val, StrBody(outcome.body)), Cepla))

(***************************************************************************)
(* services::Address and the adapters' to_address                          *)
(***************************************************************************)
\* viacep::Address and correios::Address, with the field names of their APIs
ViacepAddress(cep) ==
    [cep |-> Hyphenated(cep), logradouro |-> Street(cep), complemento |-> "",
     bairro |-> Neighborhood(cep), localidade |-> City(cep), uf |-> State(cep)]
CorreiosAddress(cep) ==
    [cep |-> cep, end |-> Street(cep), complemento2 |-> "",
     bairro |-> Neighborhood(cep), cidade |-> City(cep), uf |-> State(cep)]

\* Address::to_address of each adapter
to_address(p, a) ==
    CASE p = "viacep" ->
           [cep |-> a.cep, address |-> a.logradouro, details |-> a.complemento,
            neighborhood |-> a.bairro, city |-> a.localidade, state |-> a.uf]
      [] p = "cepla" ->
           [cep |-> a.cep, address |-> a.logradouro, details |-> a.aux,
            neighborhood |-> a.bairro, city |-> a.cidade, state |-> a.uf]
      [] p = "correios" ->
           [cep |-> a.cep, address |-> a.end, details |-> a.complemento2,
            neighborhood |-> a.bairro, city |-> a.cidade, state |-> a.uf]

\* the outcomes of a viacep or correios lookup
RemoteOutcomes == {"found", "failed"}
ViacepRequest(cep, outcome) ==
    IF outcome = "found" THEN Ok(ViacepAddress(cep))
    ELSE Err(Error(ClientError(400), Viacep))
CorreiosRequest(cep, outcome) ==
    IF outcome = "found" THEN Ok(CorreiosAddress(cep))
    ELSE Err(Error(ServerError(500), Correios))

\* what curl does in a get_address call: a good answer, a failed transfer,
\* a 404, and a 200 whose body is no JSON object
LookupCurl ==
    {[fail |-> "none", status |-> 200, body |-> "object"],
     [fail |-> "perform", status |-> 0, body |-> "invalid"],
     [fail |-> "none", status |-> 404, body |-> "invalid"],
     [fail |-> "none", status |-> 200, body |-> "invalid"]}

VARIABLES
    curl,        \* [Codes -> CurlOutcomes]: what curl does for cep.la/<code>
    remote,      \* [Codes -> [{"viacep","correios"} -> RemoteOutcomes]]
    pc,          \* [Calls -> position of the get_address call]
    cep,         \* [Calls -> the code the call looks up]
    task,        \* [Calls -> [Providers -> state of the provider future]]
    chan,        \* [Calls -> the messages queued in the call's channel]
    senders,     \* [Calls -> number of live Sender handles of the channel]
    sent,        \* [Calls -> [Providers -> messages the task has enqueued]]
    error_list,  \* [Calls -> Vec<Error>]
    iter,        \* [Calls -> iterations of the for loop completed]
    lastRead,    \* [Calls -> what the last rx.try_next() returned]
    result,      \* [Calls -> the value get_address returned]
    origin,      \* [Calls -> the call that sent each message queued in chan]
    readFrom,    \* [Calls -> the calls whose messages the call's loop has read]
    probe        \* the result of a direct call of cepla::request

vars == <<curl, remote, pc, cep, task, chan, senders, sent, error_list, iter,
          lastRead, result, origin, readFrom, probe>>

NoResult == [tag |-> "None"]

\* services::<p>::request(cep).await, once it returns
Lookup(p, code) ==
    CASE p = "viacep" -> ViacepRequest(code, remote[code]["viacep"])
      [] p = "cepla" -> CeplaRequest(code, curl[code])
      [] p = "correios" -> CorreiosRequest(code, remote[code]["correios"])

\* cepla::request suspending like the hyper adapters
FirstPollSuspends(p) == {TRUE, FALSE}

\* whether the first poll of services::<p>::request can return Ready:
\* cepla::request has no .await in it; hyper's requests may suspend
FirstPoll(p) == IF p = "cepla" THEN {TRUE} ELSE {TRUE, FALSE}

\* the message <p>_requet builds from the lookup's result
Message(p, r) == IF IsOk(r) THEN Ok(to_address(p, r.val)) ELSE Err(r.val)

\* the send left out of the Err arm
SendOkOnly(queue, msg) == IF IsOk(msg) THEN Append(queue, msg) ELSE queue

\* tx.send(msg): the message is queued in either match arm
Send(queue, msg) == Append(queue, msg)

\* the send pending as soon as the queue holds as many messages as the buffer
SendPendingAtBuffer(queue) == Len(queue) >= Buffer

\* .await of the send: the sender is parked, and the send pending, when the
\* queue then holds more messages than the buffer
SendPending(queue) == Len(queue) > Buffer

\* rx.try_next()
TryNext(queue, nsenders) ==
    IF queue # << >> THEN [tag |-> "Some", val |-> Head(queue)]
    ELSE IF nsenders = 0 THEN [tag |-> "Closed"]
    ELSE [tag |-> "Empty"]

InternalError == Error(UnexpectedLibraryError, LagoinhaLib)

\* Err(Error { kind: AllServicesRetunedErrors { e1, e2, e3 }, .. })
Composite(list) ==
    Err(Error(AllServicesRetunedErrors(ErrorDisplay(list[1]), ErrorDisplay(list[2]),
                                       ErrorDisplay(list[3])), LagoinhaLib))

(***************************************************************************)
(* The state after construction: no call made yet                          *)
(***************************************************************************)
Idle ==
    /\ pc = [c \in Calls |-> "idle"]
    /\ cep = [c \in Calls |-> "none"]
    /\ task = [c \in Calls |-> [p \in Providers |-> "none"]]
    /\ chan = [c \in Calls |-> << >>]
    /\ senders = [c \in Calls |-> 0]
    /\ sent = [c \in Calls |-> [p \in Providers |-> 0]]
    /\ error_list = [c \in Calls |-> << >>]
    /\ iter = [c \in Calls |-> 0]
    /\ lastRead = [c \in Calls |-> "none"]
    /\ result = [c \in Calls |-> NoResult]
    /\ origin = [c \in Calls |-> << >>]
    /\ readFrom = [c \in Calls |-> {}]
    /\ probe = NoResult

\* a code that every provider finds
Found(code) ==
    /\ curl[code] = [fail |-> "none", status |-> 200, body |-> "object"]
    /\ \A p \in {"viacep", "correios"} : remote[code][p] = "found"

\* the providers answer in any way for "70150903", the code of the tests,
\* and all find the other code
Init ==
    /\ curl \in [Codes -> LookupCurl]
    /\ remote \in [Codes -> [{"viacep", "correios"} -> RemoteOutcomes]]
    /\ Found("01001000")
    /\ Idle

(***************************************************************************)
(* get_address, lib.rs:91-133                                              *)
(***************************************************************************)
\* one channel for every call, as a static would be
ChannelShared(c) == 1

\* the channel of a call: let (tx, mut rx) = mpsc::channel(1) is a local of
\* get_address, so each call has the channel it created
ChannelOf(c) == c

\* let (tx, mut rx) = mpsc::channel(1); the three futures of the select!
\* are built, each with a clone of tx.
Start(c, code) ==
    /\ pc[c] = "idle"
    /\ pc' = [pc EXCEPT ![c] = "select"]
    /\ cep' = [cep EXCEPT ![c] = code]
    /\ task' = [task EXCEPT ![c] = [p \in Providers |-> "created"]]
    /\ senders' = [senders EXCEPT ![ChannelOf(c)] = 1 + Cardinality(Providers)]
    /\ UNCHANGED <<curl, remote, chan, sent, error_list, iter, lastRead, result,
                   origin, readFrom, probe>>

\* get_address(code).await: the caller awaits one call at a time
Call(c, code) ==
    /\ \A d \in Calls : d < c => pc[d] = "done"
    /\ Start(c, code)

\* get_address(code) spawned on the runtime, next to the calls that run
Spawn(c, code) == Start(c, code)

\* the state of provider future p after one poll in which its lookup is
\* ready (or not), given the queue after its send
Polled(ready, queueAfter) ==
    IF ~ready THEN "pending"
    ELSE IF SendPending(queueAfter) THEN "parked"
    ELSE "done"

\* the futures kept past the select!, as futures bound before it would be
AfterSelectKeeps(tasks) == tasks

\* select! ends when a polled future is Ready: the futures it built are
\* dropped, the unfinished ones with their Sender clones
AfterSelect(tasks) ==
    [p \in Providers |-> IF tasks[p] = "done" THEN "done"
                         ELSE IF tasks[p] = "created" THEN "dropped_unpolled"
                         ELSE "dropped_pending"]

\* one poll of provider future p by select!, in the order select! picked.
\* A Ready future ends the select!; when every future was polled and none
\* is Ready the default branch runs unreachable!().
SelectPoll(c, p) ==
    /\ pc[c] = "select"
    /\ task[c][p] = "created"
    /\ \E ready \in FirstPoll(p) :
         LET ch == ChannelOf(c)
             msg == Message(p, Lookup(p, cep[c]))
             queue == IF ready THEN Send(chan[ch], msg) ELSE chan[ch]
             tasks == [task[c] EXCEPT ![p] = Polled(ready, queue)]
             won == tasks[p] = "done"
             none == \A q \in Providers : tasks[q] \in {"pending", "parked"}
         IN /\ chan' = [chan EXCEPT ![ch] = queue]
            /\ origin' = [origin EXCEPT ![ch] =
                              IF Len(queue) > Len(chan[ch]) THEN Append(@, c) ELSE @]
            /\ sent' = [sent EXCEPT ![c][p] = @ + Len(queue) - Len(chan[ch])]
            /\ task' = [task EXCEPT ![c] = IF won THEN AfterSelect(tasks) ELSE tasks]
            /\ senders' = [senders EXCEPT ![ch] = IF won THEN 1 ELSE @]
            /\ pc' = [pc EXCEPT ![c] = IF won THEN "loop"
                                       ELSE IF none THEN "panicked" ELSE @]
    /\ UNCHANGED <<curl, remote, cep, error_list, iter, lastRead, result, readFrom,
                   probe>>

\* the loop body with the Ok arm returning the internal error
LoopBodyOkAsInternal(read) ==
    CASE read.tag = "Some" /\ IsOk(read.val) -> [do |-> "return", val |-> Err(InternalError)]
      [] read.tag = "Some" /\ IsErr(read.val) -> [do |-> "push", val |-> read.val.val]
      [] read.tag = "Closed" -> [do |-> "push", val |-> InternalError]
      [] read.tag = "Empty" -> [do |-> "return", val |-> Err(InternalError)]

\* the loop body with the Err arm returning the error it read
LoopBodyReturnsErr(read) ==
    CASE read.tag = "Some" /\ IsOk(read.val) -> [do |-> "return", val |-> read.val]
      [] read.tag = "Some" /\ IsErr(read.val) -> [do |-> "return", val |-> read.val]
      [] read.tag = "Closed" -> [do |-> "push", val |-> InternalError]
      [] read.tag = "Empty" -> [do |-> "return", val |-> Err(InternalError)]

\* the loop body with the empty poll recorded like the closed one
LoopBodyEmptyRecorded(read) ==
    CASE read.tag = "Some" /\ IsOk(read.val) -> [do |-> "return", val |-> read.val]
      [] read.tag = "Some" /\ IsErr(read.val) -> [do |-> "push", val |-> read.val.val]
      [] read.tag = "Closed" -> [do |-> "push", val |-> InternalError]
      [] read.tag = "Empty" -> [do |-> "push", val |-> InternalError]

\* the loop body with the Ok arm recording instead of returning
LoopBodyNoReturn(read) ==
    CASE read.tag = "Some" /\ IsOk(read.val) -> [do |-> "push", val |-> InternalError]
      [] read.tag = "Some" /\ IsErr(read.val) -> [do |-> "push", val |-> read.val.val]
      [] read.tag = "Closed" -> [do |-> "push", val |-> InternalError]
      [] read.tag = "Empty" -> [do |-> "return", val |-> Err(InternalError)]

\* what one iteration of `for _ in 0..2` does with the value of try_next:
\* "return" with a value, or "push" of an error
LoopBody(read) ==
    CASE read.tag = "Some" /\ IsOk(read.val) -> [do |-> "return", val |-> read.val]
      [] read.tag = "Some" /\ IsErr(read.val) -> [do |-> "push", val |-> read.val.val]
      [] read.tag = "Closed" -> [do |-> "push", val |-> InternalError]
      [] read.tag = "Empty" -> [do |-> "return", val |-> Err(InternalError)]

\* after the loop: the composite error, whose error_list[2] panics when the
\* list is shorter
AfterLoop(list) ==
    IF Len(list) < CompositeArity THEN [do |-> "panic"]
    ELSE [do |-> "return", val |-> Composite(list)]

\* one iteration of the for loop; the last one falls through to the
\* composite error. Returning drops tx and rx.
LoopIter(c) ==
    /\ pc[c] = "loop"
    /\ LET ch == ChannelOf(c)
           read == TryNext(chan[ch], senders[ch])
           body == LoopBody(read)
           list == IF body.do = "push" THEN Append(error_list[c], body.val)
                   ELSE error_list[c]
           last == iter[c] + 1 >= LoopCount
           step == IF body.do = "return" THEN body
                   ELSE IF last THEN AfterLoop(list)
                   ELSE [do |-> "continue"]
       IN /\ lastRead' = [lastRead EXCEPT ![c] = read.tag]
          /\ chan' = [chan EXCEPT ![ch] = IF read.tag = "Some" THEN Tail(@) ELSE @]
          /\ origin' = [origin EXCEPT ![ch] = IF read.tag = "Some" THEN Tail(@) ELSE @]
          /\ readFrom' = [readFrom EXCEPT ![c] =
                              IF read.tag = "Some" THEN @ \cup {Head(origin[ch])} ELSE @]
          /\ error_list' = [error_list EXCEPT ![c] = list]
          /\ iter' = [iter EXCEPT ![c] = @ + 1]
          /\ result' = [result EXCEPT ![c] = IF step.do = "return" THEN step.val ELSE @]
          /\ senders' = [senders EXCEPT ![ch] = IF step.do = "continue" THEN @ ELSE 0]
          /\ pc' = [pc EXCEPT ![c] = CASE step.do = "return" -> "done"
                                       [] step.do = "panic" -> "panicked"
                                       [] OTHER -> "loop"]
    /\ UNCHANGED <<curl, remote, cep, task, sent, probe>>

Next ==
    \/ \E c \in Calls, code \in Codes : Call(c, code)
    \/ \E c \in Calls, p \in Providers : SelectPoll(c, p)
    \/ \E c \in Calls : LoopIter(c)

Spec == Init /\ [][Next]_vars

(***************************************************************************)
(* get_address calls running side by side                                  *)
(***************************************************************************)
\* per code, cep.la answers well or with a 404, and viacep and correios
\* both find the code or both fail; cep.la finds the second code
InitConcurrent ==
    /\ curl \in [Codes -> {o \in LookupCurl : o.fail = "none"
                                               /\ (o.status = 404 \/ o.body = "object")}]
    /\ remote \in [Codes -> {[p \in {"viacep", "correios"} |-> o] : o \in RemoteOutcomes}]
    /\ curl["01001000"].status = 200
    /\ Idle

NextConcurrent ==
    \/ \E c \in Calls, code \in Codes : Spawn(c, code)
    \/ \E c \in Calls, p \in Providers : SelectPoll(c, p)
    \/ \E c \in Calls : LoopIter(c)

SpecConcurrent == InitConcurrent /\ [][NextConcurrent]_vars

(***************************************************************************)
(* cepla::request called on its own, as cepla.rs's tests call it, over     *)
(* every behaviour of curl                                                 *)
(***************************************************************************)
InitCepla ==
    /\ curl \in {[code \in Codes |-> o] : o \in CurlOutcomes}
    /\ remote = [code \in Codes |-> [p \in {"viacep", "correios"} |-> "found"]]
    /\ Idle

\* let resaddr = super::request(cep).await;
RequestDirect(code) ==
    /\ probe = NoResult
    /\ probe' = [tag |-> "Returned", cep |-> code, val |-> CeplaRequest(code, curl[code])]
    /\ UNCHANGED <<curl, remote, pc, cep, task, chan, senders, sent, error_list,
                   iter, lastRead, result, origin, readFrom>>

NextCepla == \E code \in Codes : RequestDirect(code)

SpecCepla == InitCepla /\ [][NextCepla]_vars

(***************************************************************************)
(* Properties                                                              *)
(***************************************************************************)
Succeeds(p, code) == IsOk(Lookup(p, code))
Returned(c) == pc[c] = "done"
Unfinished == {"dropped_unpolled", "dropped_pending"}

\* C1: whenever at least one provider succeeds for the code, the value
\* get_address returns is Ok with the address of a provider that succeeded.
C1_SuccessDominates ==
    \A c \in Calls :
        (Returned(c) /\ \E p \in Providers : Succeeds(p, cep[c])) =>
            \E p \in Providers :
                /\ Succeeds(p, cep[c])
                /\ result[c] = Message(p, Lookup(p, cep[c]))

\* C2: when all three providers fail, get_address returns the composite
\* error of LagoinhaLib whose e1, e2, e3 are the three providers' failures,
\* each once.
C2_AllFailComposite ==
    \A c \in Calls :
        (Returned(c) /\ \A p \in Providers : ~Succeeds(p, cep[c])) =>
            /\ IsErr(result[c])
            /\ result[c].val.source = LagoinhaLib
            /\ result[c].val.kind.name = "AllServicesRetunedErrors"
            /\ \E f \in [{"e1", "e2", "e3"} -> Providers] :
                  /\ \A p \in Providers : \E k \in DOMAIN f : f[k] = p
                  /\ \A k \in DOMAIN f :
                        result[c].val.kind[k] = ErrorDisplay(Lookup(f[k], cep[c]).val)

\* C3: get_address never panics, neither in the default branch of select!
\* nor at error_list[2], and what it returns is an Ok or an Err.
C3_NoPanic ==
    \A c \in Calls :
        /\ pc[c] # "panicked"
        /\ Returned(c) => result[c].tag \in {"Ok", "Err"}

\* C3's case: a call returned after select! polled a future that was not
\* ready, and after a poll of the channel that found it empty
C3_Witness ==
    \E c \in Calls :
        /\ Returned(c)
        /\ lastRead[c] = "Empty"
        /\ \E p \in Providers : task[c][p] = "dropped_pending"

\* C4: when all three providers succeed, get_address returns Ok with the
\* to_address of the result of the provider that completed in this call.
C4_AllSucceed ==
    \A c \in Calls :
        (Returned(c) /\ \A p \in Providers : Succeeds(p, cep[c])) =>
            \E p \in Providers :
                /\ task[c][p] = "done"
                /\ result[c] = Ok(to_address(p, Lookup(p, cep[c]).val))

\* C4's case: all three succeed and the call returned, cepla having won
\* after viacep was polled and was not ready
C4_Witness ==
    \E c \in Calls :
        /\ Returned(c)
        /\ \A p \in Providers : Succeeds(p, cep[c])
        /\ task[c]["cepla"] = "done"
        /\ task[c]["viacep"] = "dropped_pending"

\* C5: a provider task whose lookup completed has enqueued exactly one
\* message, and no task enqueues more than one.
C5_OneMessagePerTask ==
    \A c \in Calls, p \in Providers :
        /\ sent[c][p] <= 1
        /\ task[c][p] \in {"done", "parked"} => sent[c][p] = 1

\* C5's case: a task completed with a failed lookup
C5_Witness ==
    \E c \in Calls, p \in Providers :
        /\ task[c][p] = "done"
        /\ ~Succeeds(p, cep[c])
        /\ sent[c][p] = 1

\* C6: while the aggregator reads the channel, the provider tasks that did
\* not complete the race are still running.
C6_LosersKeepRunning ==
    \A c \in Calls :
        pc[c] = "loop" => \A p \in Providers : task[c][p] \notin Unfinished

\* C7: a poll that finds the channel empty while a provider was in flight
\* does not end get_address: the loop goes on.
C7_EmptyPollRetried ==
    \A c \in Calls :
        (lastRead[c] = "Empty" /\ \E p \in Providers : task[c][p] = "dropped_pending")
            => ~Returned(c)

\* C8: every Err that cepla::request returns carries source Cepla.
C8_SourceCepla ==
    (probe # NoResult /\ IsErr(probe.val)) => probe.val.val.source = Cepla

\* C8's case: request failed at the body decode, as for input "123"
C8_Witness ==
    /\ probe # NoResult
    /\ IsErr(probe.val)
    /\ probe.val.val.kind.name = "BodyParsingError"

\* C9: after a transfer whose response code was read, request answers by
\* status band: 2xx decodes the body, 4xx is ClientError, 5xx is
\* ServerError, any other status is UnknownServerError, each with the code;
\* only a 2xx gives Ok.
C9_StatusBands ==
    (probe # NoResult /\ curl[probe.cep].fail = "none") =>
        LET s == curl[probe.cep].status
            b == curl[probe.cep].body
            r == probe.val
        IN /\ s \in 200..299 /\ b = "object" => r = Ok(CeplaAddress(probe.cep))
           /\ s \in 200..299 /\ b # "object" =>
                 IsErr(r) /\ r.val.kind.name = "BodyParsingError"
           /\ s \in 400..499 => r = Err(Error(ClientError(s), Cepla))
           /\ s \in 500..599 => r = Err(Error(ServerError(s), Cepla))
           /\ s \notin (200..299) \cup (400..599) =>
                 r = Err(Error(UnknownServerError(s), Cepla))
           /\ s \notin 200..299 => IsErr(r)

\* C9's case: a redirect, outside the three bands
C9_Witness ==
    /\ probe # NoResult
    /\ curl[probe.cep].fail = "none"
    /\ curl[probe.cep].status = 301
    /\ probe.val.val.kind.name = "UnknownServerError"

\* city, state and neighborhood equal; the code's formatting may differ
SemanticallyEqual(a, b) ==
    a.city = b.city /\ a.state = b.state /\ a.neighborhood = b.neighborhood

\* C10: two calls with the same code, which some provider recognizes,
\* both return Ok, with semantically equal addresses.
C10_Idempotent ==
    \A c, d \in Calls :
        (/\ c # d /\ Returned(c) /\ Returned(d) /\ cep[c] = cep[d]
         /\ \E p \in Providers : Succeeds(p, cep[c])) =>
            /\ IsOk(result[c]) /\ IsOk(result[d])
            /\ SemanticallyEqual(result[c].val, result[d].val)

\* C11: with calls running side by side, the loop of a call reads only
\* messages its own provider tasks sent, and what the call returns is what
\* its own completed provider gives: that provider's address, or the
\* internal error after that provider's failure.
C11_NoInterference ==
    \A c \in Calls :
        /\ readFrom[c] \subseteq {c}
        /\ Returned(c) =>
              \E p \in Providers :
                  /\ task[c][p] = "done"
                  /\ result[c] = IF Succeeds(p, cep[c])
                                 THEN Message(p, Lookup(p, cep[c]))
                                 ELSE Err(InternalError)

\* C11's case: two calls for different codes are both in their loops, one
\* having read its message while the other's is still queued
C11_Witness ==
    \E c, d \in Calls :
        /\ cep[c] # cep[d]
        /\ pc[c] = "loop" /\ readFrom[c] = {c}
        /\ pc[d] = "loop" /\ Len(chan[d]) = 1 /\ origin[d] = <<d>>

\* C12: when the transfer itself fails (perform), request returns
\* UnexpectedLibraryError, the transport kind, and not MissingBodyError.
C12_TransportKind ==
    (probe # NoResult /\ curl[probe.cep].fail = "perform") =>
        probe.val = Err(Error(UnexpectedLibraryError, Cepla))

\* C13: the iteration whose try_next yields Ok(addr) returns Ok(addr), and
\* a call that has returned reads the channel no more.
C13_FirstSuccessReturned ==
    [][\A c \in Calls :
          LET read == TryNext(chan[ChannelOf(c)], senders[ChannelOf(c)])
          IN /\ (pc[c] = "loop" /\ iter'[c] # iter[c]
                   /\ read.tag = "Some" /\ IsOk(read.val)) =>
                      (pc'[c] = "done" /\ result'[c] = read.val)
             /\ pc[c] = "done" =>
                   (iter'[c] = iter[c] /\ lastRead'[c] = lastRead[c]
                      /\ result'[c] = result[c])]_vars

\* C13's case: a call returned Ok after one read
C13_Witness ==
    \E c \in Calls : Returned(c) /\ IsOk(result[c]) /\ iter[c] = 1

\* C14: after a poll that found no message, the placeholder
\* UnexpectedLibraryError of LagoinhaLib is the entry of that slot in
\* error_list, one entry for each poll made.
C14_PlaceholderRecorded ==
    \A c \in Calls :
        lastRead[c] \in {"Empty", "Closed"} =>
            /\ Len(error_list[c]) = iter[c]
            /\ error_list[c][iter[c]] = InternalError

\* C15: when the loop starts the channel holds exactly the message of the
\* one task that completed the select!; from then on that is the only
\* message of the call, the other two futures are dropped and, while the
\* loop runs, tx keeps the channel open.
C15_OneMessageOnly ==
    \A c \in Calls :
        pc[c] \in {"loop", "done"} =>
            /\ \E p \in Providers :
                  /\ task[c][p] = "done"
                  /\ sent[c] = [q \in Providers |-> IF q = p THEN 1 ELSE 0]
                  /\ \A q \in Providers \ {p} : task[c][q] \in Unfinished
                  /\ (pc[c] = "loop" /\ iter[c] = 0) =>
                        chan[c] = <<Message(p, Lookup(p, cep[c]))>>
            /\ iter[c] > 0 => chan[c] = << >>
            /\ pc[c] = "loop" => senders[c] = 1

\* C15's case: the loop is about to poll, after a future that was polled
\* and not ready was dropped
C15_Witness ==
    \E c \in Calls :
        /\ pc[c] = "loop" /\ iter[c] = 0
        /\ \E p \in Providers : task[c][p] = "dropped_pending"

\* C16: when the provider that completed the select! failed, get_address
\* returns the internal error of LagoinhaLib from its second poll, which
\* found the channel empty, and not that provider's error.
C16_WinnerFailed ==
    \A c \in Calls :
        (Returned(c) /\ \E p \in Providers : task[c][p] = "done" /\ ~Succeeds(p, cep[c])) =>
            /\ result[c] = Err(InternalError)
            /\ iter[c] = LoopCount
            /\ lastRead[c] = "Empty"
            /\ \A p \in Providers : result[c] # Lookup(p, cep[c])

\* C16's case: the winner failed while another provider had the address
C16_Witness ==
    \E c \in Calls :
        /\ Returned(c)
        /\ \E p \in Providers : task[c][p] = "done" /\ ~Succeeds(p, cep[c])
        /\ \E q \in Providers : Succeeds(q, cep[c])

\* C17: the default branch of select! never runs: the cepla future is
\* never left pending by a poll, so the futures are never all pending.
C17_DefaultUnreachable ==
    \A c \in Calls :
        /\ task[c]["cepla"] \notin {"pending", "parked"}
        /\ ~(\A p \in Providers : task[c][p] \in {"pending", "parked"})
        /\ pc[c] = "select" => task[c]["cepla"] = "created"

\* C17's case: select! polled viacep and correios, neither ready, and
\* cepla completed it
C17_Witness ==
    \E c \in Calls :
        /\ pc[c] = "loop"
        /\ task[c]["cepla"] = "done"
        /\ task[c]["viacep"] = "dropped_pending"
        /\ task[c]["correios"] = "dropped_pending"

\* C18: once select! has resolved, every step of the loop can be taken at
\* once, and after at most two polls get_address has returned.
C18_ReturnsWithinTwoPolls ==
    \A c \in Calls :
        /\ iter[c] <= LoopCount
        /\ pc[c] = "loop" => (iter[c] < LoopCount /\ ENABLED LoopIter(c))
        /\ iter[c] = LoopCount => Returned(c)

\* C18's case: the call returned after two polls with a lookup in flight
C18_Witness ==
    \E c \in Calls :
        /\ Returned(c)
        /\ iter[c] = LoopCount
        /\ \E p \in Providers : task[c][p] = "dropped_pending"

====
